---- MODULE Spec2Model ----
(***************************************************************************)
(* Model of the gordion-relay reverse-tunnel relay: the edge registration  *)
(* path with its authentication rate limiter, the tunnel registry, the     *)
(* session life cycle and the public request path, for the three server    *)
(* implementations of internal/relay (WebSocketServer, the QUIC Server and *)
(* GRPCServer).                                                            *)
(***************************************************************************)
EXTENDS Integers, Sequences, FiniteSets, TLC

(***************************************************************************)
(* Bounds of the model.                                                    *)
(***************************************************************************)
\* number of connection slots (concurrent edge connections)
MaxConns == 2
\* the clock stops advancing at MaxTime (minutes)
MaxTime == 15
\* minutes by which one Tick advances the clock
TickStep == 5
\* number of public requests of a run
MaxReqs == 2

(***************************************************************************)
(* Strings are sequences of one-character strings, so that lowercasing,    *)
(* suffix tests and splitting are computed and not assumed.                *)
(***************************************************************************)
ToLowerChar(ch) ==
    CASE ch = "A" -> "a"
      [] ch = "B" -> "b"
      [] ch = "D" -> "d"
      [] ch = "Z" -> "z"
      [] OTHER -> ch

ToUpperChar(ch) ==
    CASE ch = "a" -> "A"
      [] ch = "b" -> "B"
      [] ch = "d" -> "D"
      [] ch = "z" -> "Z"
      [] OTHER -> ch

\* strings.ToLower
ToLower(s) == [i \in DOMAIN s |-> ToLowerChar(s[i])]

\* strings.ToUpper
ToUpper(s) == [i \in DOMAIN s |-> ToUpperChar(s[i])]

\* strings.HasSuffix
HasSuffix(s, suf) ==
    /\ Len(suf) <= Len(s)
    /\ SubSeq(s, Len(s) - Len(suf) + 1, Len(s)) = suf

\* strings.TrimSuffix
TrimSuffix(s, suf) ==
    IF HasSuffix(s, suf) THEN SubSeq(s, 1, Len(s) - Len(suf)) ELSE s

\* strings.Index(s, ":") shifted to 1-based positions; 0 when absent
IndexColon(s) ==
    IF \E i \in DOMAIN s : s[i] = ":"
    THEN CHOOSE i \in DOMAIN s : s[i] = ":" /\ \A j \in 1..(i - 1) : s[j] # ":"
    ELSE 0

(***************************************************************************)
(* Configuration (Config, HospitalConfig): read-only at run time.          *)
(***************************************************************************)
\* config.Domain
Domain == <<"d">>

\* config.Hospitals; the gRPC server reads the code as HospitalID
Hospitals ==
    << [Code |-> <<"a">>, Subdomain |-> <<"a", ".", "d">>, Token |-> <<"t1">>],
       [Code |-> <<"B">>, Subdomain |-> <<"b", ".", "d">>, Token |-> <<"t2">>],
       \* a hospital whose token is the empty string
       [Code |-> <<"e">>, Subdomain |-> <<"e", ".", "d">>, Token |-> <<>>] >>

\* cfg.Mode of the entry point: which server implementation runs
Modes == {"websocket", "quic", "grpc"}

\* recordFailedAttempt: const maxAttempts
maxAttempts == 5
\* recordFailedAttempt: const blockDuration (minutes)
blockDuration == 15

(***************************************************************************)
(* Generic map helpers (Go map assignment and delete).                     *)
(***************************************************************************)
EmptyMap == [x \in {} |-> 0]

MapPut(m, k, v) == [x \in (DOMAIN m) \cup {k} |-> IF x = k THEN v ELSE m[x]]

MapDelete(m, k) == [x \in (DOMAIN m) \ {k} |-> m[x]]

VARIABLES
    mode,            \* the server implementation that was started
    stop,            \* how far Stop() has come: "no", "closing", "returned"
    hello,           \* the TLS ClientHello autocert is deciding on
    config,          \* what LoadConfig read and the hospitals it produced
    now,             \* time.Now(), in minutes
    agents,          \* s.agents / s.edges: registry key -> connection slot
    failedAttempts,  \* s.failedAttempts: address key -> authAttempts
    conns,           \* the edge connections and the position of their handlers
    reqs,            \* the public requests and the position of their handlers
    reqMutex,        \* agent.ReqMutex: the request holding it, 0 when free
    msgCh,           \* agent.MsgCh: the frames queued for the request task
    edgeOut          \* per connection, the frames the edge has still to send

httpVars == <<reqs, reqMutex, msgCh, edgeOut>>

vars == <<mode, config, hello, stop, now, agents, failedAttempts, conns, httpVars>>

Conns == 1..MaxConns

Reqs == 1..MaxReqs

(***************************************************************************)
(* Edge input.  A registration message is the four words the edge sends;   *)
(* every word is a string (possibly empty).  An address is <<host, port>>. *)
(***************************************************************************)
Msg(cmd, id, sub, tok) == [cmd |-> cmd, id |-> id, sub |-> sub, tok |-> tok]

NoMsg == Msg(<<>>, <<>>, <<>>, <<>>)

REGISTER == <<"REGISTER">>

\* the messages an edge may send as its first message
RegMsgs ==
    { Msg(REGISTER, <<"a">>, <<"a", ".", "d">>, <<"t1">>),   \* valid, hospital a
      Msg(REGISTER, <<"a">>, <<"A", ".", "D">>, <<"t1">>),   \* subdomain in upper case
      Msg(REGISTER, <<"a">>, <<"a", ".", "d">>, <<"bad">>),  \* wrong token
      Msg(REGISTER, <<"A">>, <<"a", ".", "d">>, <<"t1">>),   \* id in another case
      Msg(REGISTER, <<"a">>, <<"z", ".", "d">>, <<"t1">>),   \* foreign subdomain
      Msg(REGISTER, <<"z">>, <<"z", ".", "d">>, <<"t1">>),   \* unknown id
      Msg(REGISTER, <<"a">>, <<"a", ".", "d">>, <<>>),       \* empty token
      Msg(<<"HELLO">>, <<"a">>, <<"a", ".", "d">>, <<"t1">>),\* not a REGISTER
      Msg(REGISTER, <<"B">>, <<"b", ".", "d">>, <<"t2">>) }  \* valid, hospital B

\* the remote addresses edges connect from
Addrs == { <<"ip1", "p1">>, <<"ip1", "p2">> }

\* strings.Fields of the text message: empty words leave no field
Fields(m) == SelectSeq(<<m.cmd, m.id, m.sub, m.tok>>, LAMBDA w : w # <<>>)

\* the key under which failed attempts of an address are counted:
\* net.SplitHostPort(r.RemoteAddr) in WebSocketServer,
\* conn.RemoteAddr().String() in Server
RemoteKey(md, addr) == IF md = "websocket" THEN <<addr[1]>> ELSE addr

(***************************************************************************)
(* Rate limiter.                                                           *)
(***************************************************************************)
\* time.Time{}: the zero time precedes every clock reading
ZeroTime == 0

\* isRateLimited: the answer
IsRateLimited(md, fa, key, t) ==
    IF key \notin DOMAIN fa THEN FALSE
    ELSE IF t < fa[key].BlockedUntil THEN TRUE
    ELSE IF md = "quic" THEN fa[key].Count >= maxAttempts
    ELSE FALSE

\* isRateLimited: the map it leaves (Server.isRateLimited extends the block)
AfterIsRateLimited(md, fa, key, t) ==
    IF /\ md = "quic"
       /\ key \in DOMAIN fa
       /\ ~(t < fa[key].BlockedUntil)
       /\ fa[key].Count >= maxAttempts
    THEN [fa EXCEPT ![key].BlockedUntil = t + blockDuration]
    ELSE fa

\* recordFailedAttempt as the scenario with four failures has it: the block
\* starts one failure early
RecordFailedAttemptEarly(fa, key, t) ==
    LET old == IF key \in DOMAIN fa
               THEN fa[key]
               ELSE [Count |-> 0, LastAttempt |-> ZeroTime, BlockedUntil |-> ZeroTime]
        cnt == old.Count + 1
    IN  MapPut(fa, key,
               [Count |-> cnt,
                LastAttempt |-> t,
                BlockedUntil |-> IF cnt >= maxAttempts - 1
                                 THEN t + blockDuration
                                 ELSE old.BlockedUntil])

\* recordFailedAttempt
RecordFailedAttempt(fa, key, t) ==
    LET old == IF key \in DOMAIN fa
               THEN fa[key]
               ELSE [Count |-> 0, LastAttempt |-> ZeroTime, BlockedUntil |-> ZeroTime]
        cnt == old.Count + 1
    IN  MapPut(fa, key,
               [Count |-> cnt,
                LastAttempt |-> t,
                BlockedUntil |-> IF cnt >= maxAttempts
                                 THEN t + blockDuration
                                 ELSE old.BlockedUntil])

\* clearFailedAttempts that leaves the record of the address in the map
ClearFailedAttemptsKeepsRecord(fa, key) == fa

\* clearFailedAttempts
ClearFailedAttempts(fa, key) == MapDelete(fa, key)

(***************************************************************************)
(* Credential checks.                                                      *)
(***************************************************************************)
\* expectedSubdomain := strings.ToLower(hospitalCode + "." + s.config.Domain)
ExpectedSubdomain(code) == ToLower(code \o <<".">> \o Domain)

\* the hospitals getHospitalToken matches: code exact, subdomain lowercased
TokenMatches(code, subdomain) ==
    { i \in DOMAIN Hospitals :
        /\ Hospitals[i].Code = code
        /\ ToLower(Hospitals[i].Subdomain) = ToLower(subdomain) }

\* getHospitalToken: <<token, ok>> of the first matching hospital
GetHospitalToken(code, subdomain) ==
    LET hits == TokenMatches(code, subdomain)
    IN  IF hits = {} THEN << <<>>, FALSE >>
        ELSE << Hospitals[CHOOSE i \in hits : \A j \in hits : i <= j].Token, TRUE >>

\* GRPCServer.findHospitalByID: index of the first hospital whose id matches
\* without regard to case, 0 when there is none
FindHospitalByID(id) ==
    LET hits == { i \in DOMAIN Hospitals : ToUpper(Hospitals[i].Code) = ToUpper(id) }
    IN  IF hits = {} THEN 0 ELSE CHOOSE i \in hits : \A j \in hits : i <= j

(***************************************************************************)
(* Replies written to the edge.                                            *)
(***************************************************************************)
OkRegistered == "OK Registered"
ErrFormat == "ERROR Invalid registration format"
ErrRateLimited == "ERROR Too many failed attempts"
ErrSubdomain == "ERROR Invalid subdomain"
ErrToken == "ERROR Invalid token"
ErrNotConfigured == "ERROR Hospital not configured or token missing"
ErrUnknownHospital == "unknown hospital"
ErrGrpcToken == "invalid authentication token"
NoReply == ""

(***************************************************************************)
(* Connections.  pc is the position of the connection's handler:           *)
(*   idle       no connection in this slot                                 *)
(*   accepted   connection accepted, first message not yet read            *)
(*   checked    message parsed, address found not rate limited             *)
(*   authed     credentials accepted, failed attempts cleared              *)
(*   registered stored in the registry, acknowledgement not yet written    *)
(*   acked      WebSocketServer: OK written, reader not yet started        *)
(*   active     the session's read loop runs                               *)
(*   done       the read loop has ended, registry not yet cleaned          *)
(*   rejected   an error was answered (or the handler returned an error)   *)
(***************************************************************************)
IdleConn == [pc |-> "idle", addr |-> <<>>, msg |-> NoMsg, reply |-> NoReply,
             lastSeen |-> ZeroTime, closed |-> FALSE, connected |-> ZeroTime]

\* hospitalCode := parts[1] / reg.HospitalId: the key of the registry
RegistryKey(m) == m.id

\* the connection's handler leaves with an error answer
Reject(c, why) == [conns EXCEPT ![c].pc = "rejected", ![c].reply = why]

\* Upgrade / listener.Accept / the gRPC stream opens: a new edge connection
\* whose first message is msg.  A slot stands for one agent object, so it is
\* taken again only when no request task still holds the previous agent.
Connect(c, msg, addr) ==
    /\ stop # "returned"
    /\ conns[c].pc = "idle"
    /\ \A r \in Reqs : reqs[r].agent = c => reqs[r].pc \in {"idle", "finished"}
    /\ conns' = [conns EXCEPT ![c] = [IdleConn EXCEPT !.pc = "accepted",
                                                      !.addr = addr,
                                                      !.msg = msg]]
    /\ msgCh' = [msgCh EXCEPT ![c] = <<>>]
    /\ edgeOut' = [edgeOut EXCEPT ![c] = <<>>]
    /\ UNCHANGED <<mode, config, hello, stop, now, agents, failedAttempts, reqs, reqMutex>>

\* the first message cannot be read (the peer went away): the handler
\* returns and the connection closes
ReadRegistrationFails(c) ==
    /\ conns[c].pc = "accepted"
    /\ conns' = [conns EXCEPT ![c] = IdleConn]
    /\ UNCHANGED <<mode, config, hello, stop, now, agents, failedAttempts, httpVars>>

\* handleTunnelConnection / handleTunnelRegistration up to the rate-limit
\* check: parse the REGISTER command, then isRateLimited(remoteIP)
CheckRateLimit(c) ==
    LET m == conns[c].msg
        parts == Fields(m)
        key == RemoteKey(mode, conns[c].addr)
    IN  /\ mode \in {"websocket", "quic"}
        /\ conns[c].pc = "accepted"
        /\ IF Len(parts) # 4 \/ parts[1] # REGISTER
           THEN /\ conns' = Reject(c, ErrFormat)
                /\ UNCHANGED failedAttempts
           ELSE /\ failedAttempts' = AfterIsRateLimited(mode, failedAttempts, key, now)
                /\ IF IsRateLimited(mode, failedAttempts, key, now)
                   THEN conns' = Reject(c, ErrRateLimited)
                   ELSE conns' = [conns EXCEPT ![c].pc = "checked"]
        /\ UNCHANGED <<mode, config, hello, stop, now, agents, httpVars>>

\* handleTunnelConnection / handleTunnelRegistration: validate the subdomain
\* and the token, record the failure or clear the failed attempts
ValidateCredentials(c) ==
    LET m == conns[c].msg
        key == RemoteKey(mode, conns[c].addr)
        subdomain == ToLower(m.sub)
        tok == GetHospitalToken(m.id, subdomain)
    IN  /\ mode \in {"websocket", "quic"}
        /\ conns[c].pc = "checked"
        /\ IF subdomain # ExpectedSubdomain(m.id)
           THEN /\ failedAttempts' = RecordFailedAttempt(failedAttempts, key, now)
                /\ conns' = Reject(c, ErrSubdomain)
           ELSE IF ~tok[2] \/ tok[1] = <<>>
           THEN /\ failedAttempts' = RecordFailedAttempt(failedAttempts, key, now)
                /\ conns' = Reject(c, IF mode = "quic" THEN ErrNotConfigured ELSE ErrToken)
           ELSE IF m.tok # tok[1]
           THEN /\ failedAttempts' = RecordFailedAttempt(failedAttempts, key, now)
                /\ conns' = Reject(c, ErrToken)
           ELSE /\ failedAttempts' = ClearFailedAttempts(failedAttempts, key)
                /\ conns' = [conns EXCEPT ![c].pc = "authed"]
        /\ UNCHANGED <<mode, config, hello, stop, now, agents, httpVars>>

\* GRPCServer.Stream: the first message must be a registration of a known
\* hospital with its token
GrpcValidate(c) ==
    LET m == conns[c].msg
        h == FindHospitalByID(m.id)
    IN  /\ mode = "grpc"
        /\ conns[c].pc = "accepted"
        /\ IF m.cmd # REGISTER
           THEN conns' = Reject(c, NoReply)
           ELSE IF h = 0
           THEN conns' = Reject(c, ErrUnknownHospital)
           ELSE IF m.tok # Hospitals[h].Token
           THEN conns' = Reject(c, ErrGrpcToken)
           ELSE conns' = [conns EXCEPT ![c].pc = "authed"]
        /\ UNCHANGED <<mode, config, hello, stop, now, agents, failedAttempts, httpVars>>

\* the registry after s.agents[hospitalCode] = agent
StoreAgent(reg, key, c) == MapPut(reg, key, c)

\* "Register agent": build the agent (LastSeen: time.Now(); connected is
\* the time of registration, EdgeConnection.Connected) and store it
RegisterAgent(c) ==
    /\ conns[c].pc = "authed"
    /\ agents' = StoreAgent(agents, RegistryKey(conns[c].msg), c)
    /\ conns' = [conns EXCEPT ![c].pc = "registered", ![c].lastSeen = now,
                              ![c].connected = now]
    /\ UNCHANGED <<mode, config, hello, stop, now, failedAttempts, httpVars>>

\* "Send success response": the acknowledgement is written to the edge
WriteOK(c) ==
    /\ conns[c].pc = "registered"
    /\ conns' = [conns EXCEPT ![c].reply = OkRegistered,
                              ![c].pc = IF mode = "websocket" THEN "acked" ELSE "active"]
    /\ UNCHANGED <<mode, config, hello, stop, now, agents, failedAttempts, httpVars>>

\* GRPCServer.Stream: stream.Send of the acknowledgement fails; the entry is
\* deleted and the handler returns
GrpcAckFails(c) ==
    /\ mode = "grpc"
    /\ conns[c].pc = "registered"
    /\ agents' = MapDelete(agents, RegistryKey(conns[c].msg))
    /\ conns' = [conns EXCEPT ![c] = IdleConn]
    /\ UNCHANGED <<mode, config, hello, stop, now, failedAttempts, httpVars>>

\* handleTunnelConnection: MsgCh and Done are made and agentReadLoop starts
StartReader(c) ==
    /\ mode = "websocket"
    /\ conns[c].pc = "acked"
    /\ conns' = [conns EXCEPT ![c].pc = "active"]
    /\ msgCh' = [msgCh EXCEPT ![c] = <<>>]
    /\ UNCHANGED <<mode, config, hello, stop, now, agents, failedAttempts, reqs, reqMutex, edgeOut>>

\* agent.MsgCh = make(chan []byte, 64)
MsgChCap == 64

\* agentReadLoop stands in its send on MsgCh: it has read a message that is
\* no heartbeat and the channel is full
ReaderBlocked(c) ==
    /\ mode = "websocket"
    /\ edgeOut[c] # <<>>
    /\ Len(msgCh[c]) = MsgChCap

\* a heartbeat handler that reads the clock before it takes agent.Mutex: a
\* handler that read the clock earlier may store its reading later
HeartbeatUnlocked(c) ==
    /\ conns[c].pc = "active"
    /\ ~conns[c].closed
    /\ ~ReaderBlocked(c)
    /\ \E t \in ZeroTime..now : conns' = [conns EXCEPT ![c].lastSeen = t]
    /\ UNCHANGED <<mode, config, hello, stop, now, agents, failedAttempts, httpVars>>

\* agentReadLoop / handleAgentMessages / the receive loop of Stream: a
\* heartbeat (keep-alive) arrives and LastSeen is set to time.Now(), which
\* the handler reads while it holds agent.Mutex.  A reader that stands in
\* its send on MsgCh reads no message
Heartbeat(c) ==
    /\ conns[c].pc = "active"
    /\ ~conns[c].closed
    /\ ~ReaderBlocked(c)
    /\ conns' = [conns EXCEPT ![c].lastSeen = now]
    /\ UNCHANGED <<mode, config, hello, stop, now, agents, failedAttempts, httpVars>>

\* the read loop ends: the connection fails or the peer closes it, and
\* ReadMessage / AcceptStream / Recv returns the error; agentReadLoop closes
\* Done.  Only a reader that stands in its read sees the error
ReaderExit(c) ==
    /\ conns[c].pc = "active"
    /\ ~ReaderBlocked(c)
    /\ conns' = [conns EXCEPT ![c].pc = "done"]
    /\ UNCHANGED <<mode, config, hello, stop, now, agents, failedAttempts, httpVars>>

\* the registry after delete(s.agents, hospitalCode)
DeleteAgent(reg, key, c) == MapDelete(reg, key)

\* "Clean up on disconnect" / "Unregister on disconnect", then the deferred
\* close of the connection
Cleanup(c) ==
    /\ conns[c].pc = "done"
    /\ agents' = DeleteAgent(agents, RegistryKey(conns[c].msg), c)
    /\ conns' = [conns EXCEPT ![c] = IdleConn]
    /\ UNCHANGED <<mode, config, hello, stop, now, failedAttempts, httpVars>>

\* the handler of a refused registration returns and the connection closes
CloseRejected(c) ==
    /\ conns[c].pc = "rejected"
    /\ conns' = [conns EXCEPT ![c] = IdleConn]
    /\ UNCHANGED <<mode, config, hello, stop, now, agents, failedAttempts, httpVars>>

\* WebSocketServer.Stop / Server.Stop, first part: running is set to false,
\* the connection of every agent in the registry is closed and the registry
\* is replaced by an empty map, all under agentsMutex
StopCloseAgents ==
    /\ mode \in {"websocket", "quic"}
    /\ stop = "no"
    /\ stop' = "closing"
    /\ conns' = [c \in Conns |->
                   IF \E k \in DOMAIN agents : agents[k] = c
                   THEN [conns[c] EXCEPT !.closed = TRUE] ELSE conns[c]]
    /\ agents' = EmptyMap
    /\ UNCHANGED <<mode, config, hello, now, failedAttempts, httpVars>>

\* Stop, second part: s.server.Shutdown closes the listener and leaves
\* hijacked (WebSocket) connections alone; s.listener.Close() of the QUIC
\* relay closes the listener and, depending on the quic-go release, the
\* connections it accepted.  Stop returns
StopReturns ==
    /\ stop = "closing"
    /\ stop' = "returned"
    /\ \/ UNCHANGED conns
       \/ /\ mode = "quic"
          /\ conns' = [c \in Conns |->
                         IF conns[c].pc # "idle"
                         THEN [conns[c] EXCEPT !.closed = TRUE] ELSE conns[c]]
    /\ UNCHANGED <<mode, config, hello, now, agents, failedAttempts, httpVars>>

\* time passes
Tick ==
    /\ now + TickStep <= MaxTime
    /\ now' = now + TickStep
    /\ UNCHANGED <<mode, config, hello, stop, agents, failedAttempts, conns, httpVars>>

\* 24*time.Hour in minutes: the age after which the sweep removes a record
cleanupAge == 1440

\* cleanupFailedAttempts, one firing of its ticker: every record whose last
\* attempt is older than 24 hours is deleted
CleanupFailedAttempts ==
    /\ mode \in {"websocket", "quic"}
    /\ failedAttempts' =
          [k \in { a \in DOMAIN failedAttempts :
                     ~(now - failedAttempts[a].LastAttempt > cleanupAge) }
             |-> failedAttempts[k]]
    /\ UNCHANGED <<mode, config, hello, stop, now, agents, conns, httpVars>>

\* a day passes
TickDay ==
    /\ now <= MaxTime
    /\ now' = now + cleanupAge
    /\ UNCHANGED <<mode, config, hello, stop, agents, failedAttempts, conns, httpVars>>

(***************************************************************************)
(* Public requests.  pc is the position of the request's handler:          *)
(*   idle      not yet received                                            *)
(*   forward   tunnel found, forwardRequest about to run                   *)
(*   locked    WebSocketServer: agent.ReqMutex held, request not written   *)
(*   waitHead  request written to the edge, waiting for the response head  *)
(*   body      head written to the client, streaming body frames           *)
(*   finished  the handler has returned                                    *)
(* got is what the client was sent: the frames of the edge, in order, each *)
(* carrying the request the edge produced it for.  body is the body of the *)
(* public request, which the edge's handler echoes.                        *)
(***************************************************************************)
IdleReq == [pc |-> "idle", host |-> <<>>, body |-> "", code |-> <<>>, agent |-> 0,
            status |-> 0, got |-> <<>>,
            ctxDone |-> FALSE,    \* r.Context() is cancelled
            \* GRPCServer: r.URL.Path and the token parameter of a download
            path |-> <<>>, token |-> [enc |-> "none", key |-> <<>>, exp |-> 0, path |-> <<>>],
            \* GRPCServer: the PendingRequest of the request and its goroutines
            answer |-> <<>>,      \* the frames the edge sends for the request
            requestID |-> 0,      \* RequestID: the reading of the clock
            pending |-> FALSE,    \* edge.pendingRequests holds the entry
            handlers |-> {},      \* running handleDataResponse goroutines
            respCh |-> <<>>,      \* ResponseChan
            closed |-> FALSE,     \* ResponseChan is closed
            errCh |-> <<>>,       \* ErrorChan
            sunk |-> <<>>,        \* frames the assembly goroutine has received
            chunks |-> {},        \* chunks stored for reassembly
            maxChunk |-> -1,      \* maxChunkIndex
            panic |-> FALSE]      \* a goroutine sent on the closed ResponseChan

\* the bytes of a message that forwardRequest takes for a heartbeat
HEARTBEAT == "HEARTBEAT"

\* the bytes of a response head (status line and headers)
HeadBytes == "HTTP/1.1 200 OK"

\* a frame the edge sends: kind is "head", "chunk" or "end" (the empty
\* message), data its bytes; req is the request the edge answers with it
Frame(r, kind) ==
    [req |-> r, kind |-> kind,
     data |-> CASE kind = "head" -> HeadBytes
                [] kind = "end" -> ""
                [] OTHER -> reqs[r].body]

\* the frames with which the edge answers request r: the head, the body of
\* the request echoed in one frame, the empty message that ends the response
EdgeResponse(r) ==
    IF reqs[r].body = ""
    THEN << Frame(r, "head"), Frame(r, "end") >>
    ELSE << Frame(r, "head"), Frame(r, "chunk"), Frame(r, "end") >>

\* what the client of request r has read when the whole response reached it
WholeResponse(r) == SelectSeq(EdgeResponse(r), LAMBDA f : f.kind # "end")

\* http.StatusBadRequest, StatusServiceUnavailable, StatusInternalServerError,
\* and the status of the edge's response head
StatusBadRequest == 400
StatusServiceUnavailable == 503
StatusInternalServerError == 500
StatusOK == 200

\* host[:colonIndex]: the host without its port
StripPort(host) ==
    IF IndexColon(host) = 0 THEN host ELSE SubSeq(host, 1, IndexColon(host) - 1)

\* WebSocketServer.extractHospitalCode
WsExtractHospitalCode(host) ==
    LET h == StripPort(ToLower(host))
        domainSuffix == <<".">> \o ToLower(Domain)
    IN  IF ~HasSuffix(h, domainSuffix) THEN <<>> ELSE TrimSuffix(h, domainSuffix)

\* Server.extractHospitalCode
QuicExtractHospitalCode(host) ==
    LET h == StripPort(host)
        domainSuffix == <<".">> \o Domain
    IN  IF ~HasSuffix(h, domainSuffix) THEN <<>> ELSE TrimSuffix(h, domainSuffix)

\* extractHospitalCode of the running server
ExtractHospitalCode(md, host) ==
    IF md = "websocket" THEN WsExtractHospitalCode(host)
    ELSE QuicExtractHospitalCode(host)

\* the connection of an agent accepts writes
ConnOpen(c) == conns[c].pc \in {"registered", "acked", "active"}

\* the request's handler returns with this status
Finish(r, status) == [reqs EXCEPT ![r].pc = "finished", ![r].status = status]

\* handleHTTPRequest up to the call of forwardRequest: extract the hospital
\* code from the Host, find the agent
HandleHTTPRequest(r, host, body) ==
    LET code == ExtractHospitalCode(mode, host)
    IN  /\ mode \in {"websocket", "quic"}
        /\ reqs[r].pc = "idle"
        /\ reqs' = IF code = <<>>
                   THEN [reqs EXCEPT ![r].pc = "finished", ![r].host = host,
                                     ![r].body = body,
                                     ![r].status = StatusBadRequest]
                   ELSE IF code \notin DOMAIN agents
                   THEN [reqs EXCEPT ![r].pc = "finished", ![r].host = host,
                                     ![r].body = body, ![r].code = code,
                                     ![r].status = StatusServiceUnavailable]
                   ELSE [reqs EXCEPT ![r].pc = "forward", ![r].host = host,
                                     ![r].body = body,
                                     ![r].code = code, ![r].agent = agents[code]]
        /\ UNCHANGED <<mode, config, hello, stop, now, agents, failedAttempts, conns, reqMutex, msgCh, edgeOut>>

\* WebSocketServer.forwardRequest: agent.ReqMutex.Lock()
AcquireReqMutex(r) ==
    /\ mode = "websocket"
    /\ reqs[r].pc = "forward"
    /\ reqMutex[reqs[r].agent] = 0
    /\ reqMutex' = [reqMutex EXCEPT ![reqs[r].agent] = r]
    /\ reqs' = [reqs EXCEPT ![r].pc = "locked"]
    /\ UNCHANGED <<mode, config, hello, stop, now, agents, failedAttempts, conns, msgCh, edgeOut>>

\* WebSocketServer.forwardRequest: the request is serialized and written to
\* the edge in one message; a failed write returns an error (500)
WriteRequest(r) ==
    LET a == reqs[r].agent
    IN  /\ mode = "websocket"
        /\ reqs[r].pc = "locked"
        /\ IF ConnOpen(a)
           THEN /\ edgeOut' = [edgeOut EXCEPT ![a] = @ \o EdgeResponse(r)]
                /\ reqs' = [reqs EXCEPT ![r].pc = "waitHead"]
                /\ UNCHANGED reqMutex
           ELSE /\ reqs' = Finish(r, StatusInternalServerError)
                /\ reqMutex' = [reqMutex EXCEPT ![a] = 0]
                /\ UNCHANGED edgeOut
        /\ UNCHANGED <<mode, config, hello, stop, now, agents, failedAttempts, conns, msgCh>>

\* agentReadLoop: the next message of the edge that is no heartbeat is read
\* and sent on MsgCh (the send blocks while the channel is full)
AgentReadLoop(c) ==
    /\ mode = "websocket"
    /\ conns[c].pc = "active"
    /\ edgeOut[c] # <<>>
    /\ Len(msgCh[c]) < MsgChCap
    /\ msgCh' = [msgCh EXCEPT ![c] = Append(@, Head(edgeOut[c]))]
    /\ edgeOut' = [edgeOut EXCEPT ![c] = Tail(@)]
    /\ UNCHANGED <<mode, config, hello, stop, now, agents, failedAttempts, conns, reqs, reqMutex>>

\* WebSocketServer.forwardRequest: the first message from MsgCh that is not
\* the bytes HEARTBEAT is parsed as the response head and written to the
\* client; a message that is no head fails to parse (500)
RecvHead(r) ==
    LET a == reqs[r].agent
        f == Head(msgCh[a])
    IN  /\ mode = "websocket"
        /\ reqs[r].pc = "waitHead"
        /\ msgCh[a] # <<>>
        /\ msgCh' = [msgCh EXCEPT ![a] = Tail(@)]
        /\ IF f.data = HEARTBEAT
           THEN UNCHANGED <<reqs, reqMutex>>
           ELSE IF f.kind = "head"
           THEN /\ reqs' = [reqs EXCEPT ![r].pc = "body", ![r].status = StatusOK,
                                        ![r].got = Append(@, f)]
                /\ UNCHANGED reqMutex
           ELSE /\ reqs' = Finish(r, StatusInternalServerError)
                /\ reqMutex' = [reqMutex EXCEPT ![a] = 0]
        /\ UNCHANGED <<mode, config, hello, stop, now, agents, failedAttempts, conns, edgeOut>>

\* WebSocketServer.forwardRequest, body loop: a message with the bytes
\* HEARTBEAT is skipped, an empty message ends the response, every other
\* message is written to the client and flushed
RecvChunk(r) ==
    LET a == reqs[r].agent
        f == Head(msgCh[a])
    IN  /\ mode = "websocket"
        /\ reqs[r].pc = "body"
        /\ msgCh[a] # <<>>
        /\ msgCh' = [msgCh EXCEPT ![a] = Tail(@)]
        /\ IF f.data = HEARTBEAT
           THEN UNCHANGED <<reqs, reqMutex>>
           ELSE IF f.data = ""
           THEN /\ reqs' = [reqs EXCEPT ![r].pc = "finished"]
                /\ reqMutex' = [reqMutex EXCEPT ![a] = 0]
           ELSE /\ reqs' = [reqs EXCEPT ![r].got = Append(@, f)]
                /\ UNCHANGED reqMutex
        /\ UNCHANGED <<mode, config, hello, stop, now, agents, failedAttempts, conns, edgeOut>>

\* the text http.Error writes to the client of request r
ErrorText(r) == [req |-> r, kind |-> "relay", data |-> "Internal server error"]

\* WebSocketServer.forwardRequest: the timer of request_timeout fires while
\* the task waits for the head or for a body frame; handleHTTPRequest then
\* calls http.Error with status 500: before the head has been written this
\* is the response; after it the status stays as written and the text of
\* the error is written to the client after the body bytes sent so far
RequestTimeout(r) ==
    /\ mode = "websocket"
    /\ reqs[r].pc \in {"waitHead", "body"}
    /\ reqs' = [reqs EXCEPT ![r].pc = "finished",
                            ![r].status = IF reqs[r].pc = "waitHead"
                                          THEN StatusInternalServerError
                                          ELSE @,
                            ![r].got = IF reqs[r].pc = "body"
                                       THEN Append(@, ErrorText(r))
                                       ELSE @]
    /\ reqMutex' = [reqMutex EXCEPT ![reqs[r].agent] = 0]
    /\ UNCHANGED <<mode, config, hello, stop, now, agents, failedAttempts, conns, msgCh, edgeOut>>

\* Server.forwardRequest: a stream of its own is opened for the request, the
\* request written to it, and the response read from it and copied to the
\* client; a connection that is closed fails the request (500)
QuicForwardRequest(r) ==
    /\ mode = "quic"
    /\ reqs[r].pc = "forward"
    /\ reqs' = IF ConnOpen(reqs[r].agent)
               THEN [reqs EXCEPT ![r].pc = "finished", ![r].status = StatusOK,
                                 ![r].got = WholeResponse(r)]
               ELSE Finish(r, StatusInternalServerError)
    /\ UNCHANGED <<mode, config, hello, stop, now, agents, failedAttempts, conns, reqMutex, msgCh, edgeOut>>

\* the public client of request r goes away while its handler runs: net/http
\* cancels r.Context()
ContextDone(r) ==
    /\ reqs[r].pc \notin {"idle", "finished"}
    /\ ~reqs[r].ctxDone
    /\ reqs' = [reqs EXCEPT ![r].ctxDone = TRUE]
    /\ UNCHANGED <<mode, config, hello, stop, now, agents, failedAttempts, conns, reqMutex, msgCh, edgeOut>>

\* the steps of the handler of one public request
Request(r) ==
    \/ AcquireReqMutex(r)
    \/ WriteRequest(r)
    \/ RecvHead(r)
    \/ RecvChunk(r)
    \/ RequestTimeout(r)
    \/ QuicForwardRequest(r)

(***************************************************************************)
(* GRPCServer: instance downloads.  The edge answers a fetch command with  *)
(* DataResponse messages that carry the request id: a start message, data  *)
(* chunks and a complete marker, or an error.                              *)
(***************************************************************************)
\* make(chan *grpc.DataResponse, 10) and make(chan error, 1)
ResponseChanCap == 10
ErrorChanCap == 1

\* http.StatusNotFound, http.StatusUnauthorized
StatusNotFound == 404
StatusUnauthorized == 401

\* a goroutine of the process has panicked
Panicked == \E r \in Reqs : reqs[r].panic

\* a panic in a goroutine ends the process, and every connection with it
Crashed == [c \in Conns |-> [conns[c] EXCEPT !.pc = "dead"]]

\* a DataResponse of request r.  kind is "start", "chunk", "complete" or
\* "error"; idx is ChunkIndex (ChunkCount in a start message), last is
\* IsLastChunk (Chunked in a start message), data the bytes of a chunk
DataResponse(r, kind, idx, last, data) ==
    [req |-> r, kind |-> kind, idx |-> idx, last |-> last, data |-> data]

\* the path of an instance whose file has one chunk more than ResponseChan
\* has places
LargePath == <<"instances", "large", "download">>
LargeChunkCount == ResponseChanCap + 1

\* the answer of an edge for the large instance: start, its chunks in
\* order, complete
LargeAnswer(r) ==
    << DataResponse(r, "start", LargeChunkCount, TRUE, "") >>
    \o [i \in 1..LargeChunkCount |->
          DataResponse(r, "chunk", i - 1, i = LargeChunkCount, "x")]
    \o << DataResponse(r, "complete", 0, FALSE, "") >>

\* the path of an instance that its edge sends in two chunks after a start
\* message that does not declare the transfer chunked
PlainPath == <<"instances", "plain", "download">>

PlainAnswer(r) ==
    << DataResponse(r, "start", 2, FALSE, ""),
       DataResponse(r, "chunk", 0, FALSE, "x"),
       DataResponse(r, "chunk", 1, TRUE, "y"),
       DataResponse(r, "complete", 0, FALSE, "") >>

\* the answers of an edge to a fetch command: the whole file in one chunk,
\* a file in two chunks, an error; for the large instance its chunks, or an
\* error; for the plain instance its two chunks
EdgeAnswers(r) ==
    IF reqs[r].path = LargePath
    THEN { LargeAnswer(r), << DataResponse(r, "error", 0, FALSE, "") >> }
    ELSE IF reqs[r].path = PlainPath
    THEN { PlainAnswer(r) }
    ELSE
    { << DataResponse(r, "start", 1, FALSE, ""),
         DataResponse(r, "chunk", 0, TRUE, "x"),
         DataResponse(r, "complete", 0, FALSE, "") >>,
      << DataResponse(r, "start", 2, TRUE, ""),
         DataResponse(r, "chunk", 0, FALSE, "x"),
         DataResponse(r, "chunk", 1, TRUE, "y"),
         DataResponse(r, "complete", 0, FALSE, "") >>,
      << DataResponse(r, "error", 0, FALSE, "") >> }

\* the token parameter of a download.  enc says what the parameter holds:
\* "none" (no parameter), "garbage" (bytes that are no AES-GCM message of
\* any key) or "sealed" (the payload exp, path sealed under key)
NoToken == [enc |-> "none", key |-> <<>>, exp |-> 0, path |-> <<>>]
Garbage == [enc |-> "garbage", key |-> <<>>, exp |-> 0, path |-> <<>>]
Token(key, exp, path) == [enc |-> "sealed", key |-> key, exp |-> exp, path |-> path]

\* the errors of timetoken.ValidateToken
ErrDecrypt == "failed to decrypt token"
ErrExpired == "token has expired"
ErrPathMismatch == "token path mismatch"

\* a validation that does not compare the path
ValidateTokenAnyPath(apiKey, token, requestedPath, t) ==
    IF token.enc # "sealed" \/ token.key # apiKey THEN ErrDecrypt
    ELSE IF t > token.exp THEN ErrExpired
    ELSE ""

\* timetoken.ValidateToken at time t: "" for nil.  AES-GCM opens only what
\* was sealed under the same key
ValidateToken(apiKey, token, requestedPath, t) ==
    IF token.enc # "sealed" \/ token.key # apiKey THEN ErrDecrypt
    ELSE IF t > token.exp THEN ErrExpired
    ELSE IF token.path # requestedPath THEN ErrPathMismatch
    ELSE ""

\* GRPCServer.extractInstanceUID on the segments of the path
ExtractInstanceUID(path) ==
    IF Len(path) >= 2 /\ path[1] = "instances" THEN path[2] ELSE ""

\* what a viewer sends: the Host, the path (its segments) and the token
\* parameter
Download(host, path, token) == [host |-> host, path |-> path, token |-> token]

\* GRPCServer.extractSubdomain
ExtractSubdomain(host) ==
    LET h == StripPort(host)
        domainSuffix == <<".">> \o Domain
    IN  IF HasSuffix(h, domainSuffix) THEN TrimSuffix(h, domainSuffix) ELSE <<>>

\* GRPCServer.findHospitalBySubdomain: index of the first hospital whose code
\* is the subdomain without regard to case, 0 when there is none
FindHospitalBySubdomain(subdomain) ==
    LET hits == { i \in DOMAIN Hospitals : ToLower(Hospitals[i].Code) = ToLower(subdomain) }
    IN  IF hits = {} THEN 0 ELSE CHOOSE i \in hits : \A j \in hits : i <= j

\* the requests other than r whose entry in pendingRequests of edge a is
\* stored under request id
SameEntry(r, a, id) ==
    { q \in Reqs \ {r} : reqs[q].pending /\ reqs[q].agent = a /\ reqs[q].requestID = id }

\* edge.pendingRequests[requestID] = req: the entry of r is stored under the
\* reading of the clock; an entry stored under the same id is replaced
InsertPending(r, d, h) ==
    LET a == agents[Hospitals[h].Code]
    IN  [q \in Reqs |->
           IF q = r
           THEN [reqs[r] EXCEPT !.pc = "send", !.host = d.host,
                                !.path = d.path, !.token = d.token,
                                !.code = Hospitals[h].Code,
                                !.agent = a,
                                !.requestID = now,
                                !.pending = TRUE]
           ELSE IF q \in SameEntry(r, a, now)
           THEN [reqs[q] EXCEPT !.pending = FALSE]
           ELSE reqs[q]]

\* handleInstanceDownload up to the insert of the pending request in
\* fetchInstanceFromEdge
HandleInstanceDownload(r, d) ==
    LET subdomain == ExtractSubdomain(d.host)
        h == FindHospitalBySubdomain(subdomain)
        fail(status) == [reqs EXCEPT ![r].pc = "finished", ![r].host = d.host,
                                     ![r].path = d.path, ![r].token = d.token,
                                     ![r].status = status]
    IN  /\ mode = "grpc"
        /\ ~Panicked
        /\ reqs[r].pc = "idle"
        /\ reqs' = IF subdomain = <<>> THEN fail(StatusBadRequest)
                   ELSE IF h = 0 THEN fail(StatusNotFound)
                   ELSE IF d.token.enc = "none" THEN fail(StatusUnauthorized)
                   ELSE IF ValidateToken(Hospitals[h].Token, d.token, d.path, now) # ""
                   THEN fail(StatusUnauthorized)
                   ELSE IF ExtractInstanceUID(d.path) = "" THEN fail(StatusBadRequest)
                   ELSE IF Hospitals[h].Code \notin DOMAIN agents
                   THEN fail(StatusServiceUnavailable)
                   ELSE InsertPending(r, d, h)
        /\ UNCHANGED <<mode, config, hello, stop, now, agents, failedAttempts, conns, reqMutex, msgCh, edgeOut>>

\* fetchInstanceFromEdge: edge.Stream.Send of the fetch command.  A stream
\* that is broken fails the request (503); otherwise the edge will send one
\* of its answers, the pipe is made, the assembly goroutine started and the
\* handler begins to copy the pipe to the viewer
SendFetchCommand(r) ==
    LET a == reqs[r].agent
    IN  /\ mode = "grpc"
        /\ ~Panicked
        /\ reqs[r].pc = "send"
        /\ IF ConnOpen(a)
           THEN \E ans \in EdgeAnswers(r) :
                   /\ reqs' = [reqs EXCEPT ![r].pc = "assemble", ![r].answer = ans,
                                           ![r].status = StatusOK]
                   /\ edgeOut' = [edgeOut EXCEPT ![a] = @ \o ans]
           ELSE /\ reqs' = Finish(r, StatusServiceUnavailable)
                /\ UNCHANGED edgeOut
        /\ UNCHANGED <<mode, config, hello, stop, now, agents, failedAttempts, conns, reqMutex, msgCh>>

\* the receive loop of GRPCServer.Stream: the next message of the edge is
\* received, LastSeen is set, and a goroutine is started that runs
\* handleDataResponse on it
StreamRecv(c) ==
    LET f == Head(edgeOut[c])
    IN  /\ mode = "grpc"
        /\ ~Panicked
        /\ conns[c].pc = "active"
        /\ edgeOut[c] # <<>>
        /\ edgeOut' = [edgeOut EXCEPT ![c] = Tail(@)]
        /\ conns' = [conns EXCEPT ![c].lastSeen = now]
        /\ reqs' = [reqs EXCEPT ![f.req].handlers = @ \cup {[f |-> f, found |-> FALSE]}]
        /\ UNCHANGED <<mode, config, hello, stop, now, agents, failedAttempts, reqMutex, msgCh>>

\* the requests whose entry in pendingRequests is found under the request
\* id of the frames of r
Owners(r) ==
    (IF reqs[r].pending THEN {r} ELSE {})
    \cup SameEntry(r, reqs[r].agent, reqs[r].requestID)

\* handleDataResponse, first part: the pending request is looked up by the
\* request id of the message under the read lock; without an entry the
\* goroutine returns, with an entry it goes on with the channels of the
\* request that entry belongs to
HandlerLookup(r) ==
    /\ mode = "grpc"
    /\ ~Panicked
    /\ \E h \in reqs[r].handlers :
          /\ ~h.found
          /\ IF Owners(r) = {}
             THEN reqs' = [reqs EXCEPT ![r].handlers = @ \ {h}]
             ELSE LET o == CHOOSE q \in Owners(r) : TRUE
                  IN  reqs' = [q \in Reqs |->
                                 [reqs[q] EXCEPT !.handlers =
                                     (IF q = r THEN @ \ {h} ELSE @)
                                     \cup (IF q = o THEN {[h EXCEPT !.found = TRUE]}
                                           ELSE {})]]
    /\ UNCHANGED <<mode, config, hello, stop, now, agents, failedAttempts, conns, reqMutex, msgCh, edgeOut>>
\* handleDataResponse, second part: an error goes to ErrorChan, a complete
\* marker closes ResponseChan and deletes the pending entry, every other
\* message is sent on ResponseChan.  A send blocks while the channel is
\* full; a send on the closed channel, and a second close, panic
HandlerDispatch(r) ==
    /\ mode = "grpc"
    /\ ~Panicked
    /\ \E h \in reqs[r].handlers :
          /\ h.found
          /\ CASE h.f.kind = "error" ->
                    /\ Len(reqs[r].errCh) < ErrorChanCap
                    /\ reqs' = [reqs EXCEPT ![r].handlers = @ \ {h},
                                            ![r].errCh = Append(@, h.f)]
                    /\ UNCHANGED conns
               [] h.f.kind = "complete" /\ ~reqs[r].closed ->
                    /\ reqs' = [q \in Reqs |->
                                  IF q = r
                                  THEN [reqs[r] EXCEPT !.handlers = @ \ {h},
                                                       !.closed = TRUE,
                                                       !.pending = FALSE]
                                  ELSE IF q \in SameEntry(r, reqs[r].agent,
                                                          reqs[r].requestID)
                                  THEN [reqs[q] EXCEPT !.pending = FALSE]
                                  ELSE reqs[q]]
                    /\ UNCHANGED conns
               [] h.f.kind \notin {"error", "complete"} /\ ~reqs[r].closed ->
                    /\ Len(reqs[r].respCh) < ResponseChanCap
                    /\ reqs' = [reqs EXCEPT ![r].handlers = @ \ {h},
                                            ![r].respCh = Append(@, h.f)]
                    /\ UNCHANGED conns
               [] OTHER ->
                    /\ reqs' = [reqs EXCEPT ![r].handlers = @ \ {h},
                                            ![r].panic = TRUE]
                    /\ conns' = Crashed
    /\ UNCHANGED <<mode, config, hello, stop, now, agents, failedAttempts, reqMutex, msgCh, edgeOut>>

\* the stored chunks with indexes i..n, in the order of their indexes
RECURSIVE AssembledChunks(_, _, _)
AssembledChunks(chunks, i, n) ==
    IF i > n THEN <<>>
    ELSE LET here == { f \in chunks : f.idx = i }
         IN  (IF here = {} THEN <<>> ELSE << (CHOOSE f \in here : TRUE).data >>)
             \o AssembledChunks(chunks, i + 1, n)

\* the assembly goroutine of fetchInstanceFromEdge receives from
\* ResponseChan: a start message sets maxChunkIndex when the file is chunked,
\* a chunk that is the whole file is written to the pipe, every other chunk
\* is stored under its index
AssembleRecv(r) ==
    LET f == Head(reqs[r].respCh)
    IN  /\ mode = "grpc"
        /\ reqs[r].pc = "assemble"
        /\ ~Panicked
        /\ reqs[r].respCh # <<>>
        /\ reqs' = [reqs EXCEPT
                      ![r].respCh = Tail(@),
                      ![r].sunk = Append(@, f),
                      ![r].maxChunk = IF f.kind = "start" /\ f.last THEN f.idx - 1 ELSE @,
                      ![r].got = IF f.kind = "chunk" /\ f.idx = 0 /\ f.last
                                 THEN Append(@, f.data) ELSE @,
                      ![r].chunks = IF f.kind = "chunk" /\ ~(f.idx = 0 /\ f.last)
                                    THEN { g \in @ : g.idx # f.idx } \cup {f} ELSE @]
        /\ UNCHANGED <<mode, config, hello, stop, now, agents, failedAttempts, conns, reqMutex, msgCh, edgeOut>>
\* the assembly goroutine finds ResponseChan closed and empty: the transfer
\* is complete, the stored chunks are written in the order of their indexes
\* when a start message announced a chunked file, the pipe is closed
AssembleComplete(r) ==
    /\ mode = "grpc"
    /\ reqs[r].pc = "assemble"
    /\ ~Panicked
    /\ reqs[r].respCh = <<>>
    /\ reqs[r].closed
    /\ reqs' = [reqs EXCEPT
                  ![r].pc = "finished",
                  ![r].got = IF reqs[r].maxChunk >= 0
                             THEN @ \o AssembledChunks(reqs[r].chunks, 0, reqs[r].maxChunk)
                             ELSE @]
    /\ UNCHANGED <<mode, config, hello, stop, now, agents, failedAttempts, conns, reqMutex, msgCh, edgeOut>>
\* the assembly goroutine receives from ErrorChan: the pipe is closed with
\* the error
AssembleError(r) ==
    /\ mode = "grpc"
    /\ reqs[r].pc = "assemble"
    /\ ~Panicked
    /\ reqs[r].errCh # <<>>
    /\ reqs' = [reqs EXCEPT ![r].pc = "finished", ![r].errCh = Tail(@)]
    /\ UNCHANGED <<mode, config, hello, stop, now, agents, failedAttempts, conns, reqMutex, msgCh, edgeOut>>
\* the assembly goroutine finds ctx.Done(): the viewer has gone away, now or
\* before
AssembleCancel(r) ==
    /\ mode = "grpc"
    /\ reqs[r].pc = "assemble"
    /\ ~Panicked
    /\ reqs' = [reqs EXCEPT ![r].pc = "finished", ![r].ctxDone = TRUE]
    /\ UNCHANGED <<mode, config, hello, stop, now, agents, failedAttempts, conns, reqMutex, msgCh, edgeOut>>
\* the steps of one instance download after its handler has started
Fetch(r) ==
    \/ SendFetchCommand(r)
    \/ HandlerLookup(r)
    \/ HandlerDispatch(r)
    \/ AssembleRecv(r)
    \/ AssembleComplete(r)
    \/ AssembleError(r)
    \/ AssembleCancel(r)

(***************************************************************************)
(* LoadConfig: the hospitals of the configuration file, of hospitals.json  *)
(* and of the environment.                                                 *)
(***************************************************************************)
\* before LoadConfig
NotLoaded == [pc |-> "unloaded", static |-> <<>>, file |-> [ok |-> FALSE, hospitals |-> <<>>],
              env |-> EmptyMap, hospitals |-> <<>>]

\* envKey := strings.ToUpper(hospital.Code) + "_TOKEN"
EnvKey(code) == ToUpper(code) \o <<"_TOKEN">>

\* os.Getenv: the empty string for a variable that is not set
Getenv(env, key) == IF key \in DOMAIN env THEN env[key] ELSE <<>>

\* hospitalCodes of the fallback (two codes stand for the five of the list)
hospitalCodes == << <<"a">>, <<"b">> >>

\* the hospitals of hospitals.json with their tokens replaced by the
\* environment's where a variable is set
HospitalsFromFile(hospitals, env) ==
    [i \in DOMAIN hospitals |->
        IF Getenv(env, EnvKey(hospitals[i].Code)) # <<>>
        THEN [hospitals[i] EXCEPT !.Token = Getenv(env, EnvKey(hospitals[i].Code))]
        ELSE hospitals[i]]

\* the fallback: one hospital for every code of hospitalCodes whose
\* variable is set
HospitalsFromEnv(env) ==
    LET set == SelectSeq(hospitalCodes, LAMBDA c : Getenv(env, EnvKey(c)) # <<>>)
    IN  [i \in DOMAIN set |->
            [Code |-> set[i], Subdomain |-> set[i] \o <<".">> \o Domain,
             Token |-> Getenv(env, EnvKey(set[i]))]]

\* loadHospitalsFromEnv: config.Hospitals afterwards.  static is
\* config.Hospitals as json.Unmarshal of the configuration file left it
LoadHospitalsFromEnv(static, file, env) ==
    IF file.ok
    THEN HospitalsFromFile(file.hospitals, env)
    ELSE static \o HospitalsFromEnv(env)

\* getHospitalToken on the hospitals hs: <<token, ok>> of the first hospital
\* with this code and, without regard to case, this subdomain
HospitalTokenIn(hs, code, subdomain) ==
    LET hits == { i \in DOMAIN hs :
                    hs[i].Code = code /\ ToLower(hs[i].Subdomain) = ToLower(subdomain) }
    IN  IF hits = {} THEN << <<>>, FALSE >>
        ELSE << hs[CHOOSE i \in hits : \A j \in hits : i <= j].Token, TRUE >>

\* LoadConfig with the hospitals static in the configuration file, the file
\* hospitals.json and the environment env
LoadConfig(static, file, env) ==
    /\ config.pc = "unloaded"
    /\ config' = [pc |-> "loaded", static |-> static, file |-> file, env |-> env,
                  hospitals |-> LoadHospitalsFromEnv(static, file, env)]
    /\ UNCHANGED <<mode, hello, stop, now, agents, failedAttempts, conns, httpVars>>

(***************************************************************************)
(* setupTLS with auto_cert: autocert asks HostPolicy whether a certificate *)
(* may be issued for the server name of a TLS ClientHello.                 *)
(***************************************************************************)
\* no handshake is being decided
NoHello == [pc |-> "idle", host |-> <<>>, err |-> ""]

\* fmt.Errorf("acme: unauthorized host %q", host)
ErrUnauthorizedHost == "acme: unauthorized host"

\* a host policy that forgets the dot before the domain
HostPolicyNoDot(host) ==
    IF host = Domain \/ HasSuffix(host, Domain)
    THEN ""
    ELSE ErrUnauthorizedHost

\* HostPolicy of setupTLS: nil ("") for the domain and its subdomains, the
\* unauthorized-host error for every other host
HostPolicy(host) ==
    IF host = Domain \/ HasSuffix(host, <<".">> \o Domain)
    THEN ""
    ELSE ErrUnauthorizedHost

\* autocert.Manager.GetCertificate: a handshake for server name host
\* arrives and the host policy decides
GetCertificate(host) ==
    /\ mode \in {"websocket", "quic"}
    /\ hello' = [pc |-> "decided", host |-> host, err |-> HostPolicy(host)]
    /\ UNCHANGED <<mode, config, stop, now, agents, failedAttempts, conns, httpVars>>

\* the handshake ends
HandshakeEnds ==
    /\ hello.pc = "decided"
    /\ hello' = NoHello
    /\ UNCHANGED <<mode, config, stop, now, agents, failedAttempts, conns, httpVars>>

(***************************************************************************)
(* The relay after construction: NewWebSocketServer / NewServer /          *)
(* NewGRPCServer make empty maps.                                          *)
(***************************************************************************)
Init ==
    /\ mode \in Modes
    /\ config = NotLoaded
    /\ hello = NoHello
    /\ stop = "no"
    /\ now = 0
    /\ agents = EmptyMap
    /\ failedAttempts = EmptyMap
    /\ conns = [c \in Conns |-> IdleConn]
    /\ reqs = [r \in Reqs |-> IdleReq]
    /\ reqMutex = [c \in Conns |-> 0]
    /\ msgCh = [c \in Conns |-> <<>>]
    /\ edgeOut = [c \in Conns |-> <<>>]

Session(c) ==
    \/ ReadRegistrationFails(c)
    \/ CheckRateLimit(c)
    \/ ValidateCredentials(c)
    \/ GrpcValidate(c)
    \/ RegisterAgent(c)
    \/ WriteOK(c)
    \/ GrpcAckFails(c)
    \/ StartReader(c)
    \/ Heartbeat(c)
    \/ ReaderExit(c)
    \/ Cleanup(c)
    \/ CloseRejected(c)

(***************************************************************************)
(* Specification Spec: registration, registry and session life cycle.      *)
(* Edges send every message of RegMsgs from one address; the clock stands  *)
(* still (the rate limiter is exercised under SpecRate).                   *)
(***************************************************************************)
RegAddr == <<"ip1", "p1">>

Next ==
    \/ \E c \in Conns, m \in RegMsgs : Connect(c, m, RegAddr)
    \/ \E c \in Conns : Session(c)

Spec == Init /\ [][Next]_vars

(***************************************************************************)
(* Specification SpecRate: the authentication rate limiter over time.      *)
(* Edges send a valid or a wrong-token registration from every address.    *)
(***************************************************************************)
RateMsgs ==
    { Msg(REGISTER, <<"a">>, <<"a", ".", "d">>, <<"t1">>),
      Msg(REGISTER, <<"a">>, <<"a", ".", "d">>, <<"bad">>) }

NextRate ==
    \/ \E c \in Conns, m \in RateMsgs, a \in Addrs : Connect(c, m, a)
    \/ \E c \in Conns : Session(c)
    \/ Tick

SpecRate == Init /\ [][NextRate]_vars

(***************************************************************************)
(* Specification SpecHttp: public requests routed to registered tunnels.   *)
(* Edges send a valid registration or a malformed command; public clients *)
(* send every Host of Hosts.                                               *)
(***************************************************************************)
HttpMsgs ==
    { Msg(REGISTER, <<"a">>, <<"a", ".", "d">>, <<"t1">>),
      Msg(<<"HELLO">>, <<"a">>, <<"a", ".", "d">>, <<"t1">>) }

\* the request bodies public clients send
Bodies == {"x"}

\* the Host headers public clients send
Hosts ==
    { <<"a", ".", "d">>,             \* a.d
      <<"A", ".", "d">>,             \* A.d
      <<"a", ".", "d", ":", "8">>,   \* a.d:8
      <<"z", ".", "d">>,             \* z.d: no such tunnel
      <<"d">>,                       \* the apex domain
      <<"a", ".", "z">> }            \* a foreign domain

NextHttp ==
    \/ \E c \in Conns, m \in HttpMsgs : Connect(c, m, RegAddr)
    \/ \E c \in Conns : Session(c)
    \/ \E c \in Conns : AgentReadLoop(c)
    \/ \E r \in Reqs, h \in Hosts, b \in Bodies : HandleHTTPRequest(r, h, b)
    \/ \E r \in Reqs : Request(r)

SpecHttp == Init /\ [][NextHttp]_vars

(***************************************************************************)
(* Specification SpecEcho: one edge, one public request at a time whose    *)
(* body the edge echoes, so that no frame of another request is on the     *)
(* tunnel.                                                                 *)
(***************************************************************************)
\* the request bodies: ordinary bytes, the bytes HEARTBEAT, no body
EchoBodies == {"x", HEARTBEAT, ""}

NextEcho ==
    \/ \E m \in HttpMsgs : Connect(1, m, RegAddr)
    \/ Session(1)
    \/ AgentReadLoop(1)
    \/ \E b \in EchoBodies : HandleHTTPRequest(1, <<"a", ".", "d">>, b)
    \/ Request(1)

SpecEcho == Init /\ [][NextEcho]_vars

(***************************************************************************)
(* Specification SpecGrpc: one edge and one instance download of the gRPC  *)
(* relay.                                                                  *)
(***************************************************************************)
\* what viewers send
InstancePath == <<"instances", "i1", "download">>
OtherPath == <<"instances", "i2", "download">>
NoInstancePath == <<"instances">>

\* the token parameters viewers send: none, garbage, and payloads sealed
\* under the secret of hospital a, of hospital B or under the empty key,
\* expired (exp before now) or not, bound to one of the paths
DownloadTokens ==
    { NoToken, Garbage }
    \cup { Token(k, e, p) : k \in { <<"t1">>, <<"t2">>, <<>> },
                            e \in { -1, MaxTime },
                            p \in { InstancePath, OtherPath, NoInstancePath } }

Downloads ==
    { Download(h, p, t) : h \in { <<"a", ".", "d">>, <<"A", ".", "d">> },
                          p \in { InstancePath, NoInstancePath },
                          t \in DownloadTokens }
    \cup { Download(<<"z", ".", "d">>, InstancePath, Token(<<"t1">>, MaxTime, InstancePath)),
           Download(<<"d">>, InstancePath, Token(<<"t1">>, MaxTime, InstancePath)) }

NextGrpc ==
    \/ \E m \in HttpMsgs : Connect(1, m, RegAddr)
    \/ Session(1)
    \/ StreamRecv(1)
    \/ \E d \in Downloads : HandleInstanceDownload(1, d)
    \/ Fetch(1)

SpecGrpc == Init /\ [][NextGrpc]_vars

(***************************************************************************)
(* Specification SpecStall: one edge whose messages no public request      *)
(* takes from MsgCh (the request they answer has timed out, or its client  *)
(* reads slowly).                                                          *)
(***************************************************************************)
\* messages the edge has written that the relay has not read yet
MaxUnread == 1

\* the edge writes a message on its connection
EdgeSends(c) ==
    /\ conns[c].pc = "active"
    /\ Len(edgeOut[c]) < MaxUnread
    /\ edgeOut' = [edgeOut EXCEPT ![c] = Append(@, [req |-> 0, kind |-> "chunk", data |-> "x"])]
    /\ UNCHANGED <<mode, config, hello, stop, now, agents, failedAttempts, conns, reqs, reqMutex, msgCh>>

NextStall ==
    \/ \E m \in HttpMsgs : Connect(1, m, RegAddr)
    \/ Session(1)
    \/ EdgeSends(1)
    \/ AgentReadLoop(1)

SpecStall == Init /\ [][NextStall]_vars

(***************************************************************************)
(* Specification SpecBeat: one edge that sends heartbeats while time       *)
(* passes.                                                                 *)
(***************************************************************************)
NextBeat ==
    \/ \E m \in HttpMsgs : Connect(1, m, RegAddr)
    \/ Session(1)
    \/ Tick

SpecBeat == Init /\ [][NextBeat]_vars

(***************************************************************************)
(* Specification SpecAcme: TLS handshakes for every server name of up to   *)
(* MaxHostLen symbols.                                                     *)
(***************************************************************************)
MaxHostLen == 3

\* the symbols of server names
HostSymbols == {"a", ".", "d", "D"}

\* the server names clients ask certificates for
ServerNames ==
    UNION { [1..n -> HostSymbols] : n \in 0..MaxHostLen }

NextAcme ==
    \/ \E h \in ServerNames : GetCertificate(h)
    \/ HandshakeEnds

SpecAcme == Init /\ [][NextAcme]_vars

(***************************************************************************)
(* Specification SpecConfig: LoadConfig for every combination of hospitals *)
(* in the configuration file, hospitals.json and token variables.          *)
(***************************************************************************)
\* a hospital as operators write it, with the token "file"
FileHospital(code) ==
    [Code |-> code, Subdomain |-> code \o <<".">> \o Domain, Token |-> <<"file">>]

\* the lists of hospitals a file holds
HospitalLists ==
    { <<>>, << FileHospital(<<"a">>) >>, << FileHospital(<<"z">>) >>,
      << FileHospital(<<"a">>), FileHospital(<<"z">>) >> }

\* hospitals.json: missing or unparsable, or one of the lists
HospitalFiles ==
    { [ok |-> FALSE, hospitals |-> <<>>] }
    \cup { [ok |-> TRUE, hospitals |-> hs] : hs \in HospitalLists }

\* the environment: every token variable unset ("") or set to "env"
Environments == [ { EnvKey(<<"a">>), EnvKey(<<"z">>) } -> { <<>>, <<"env">> } ]

NextConfig ==
    \E static \in HospitalLists, file \in HospitalFiles, env \in Environments :
        LoadConfig(static, file, env)

SpecConfig == Init /\ [][NextConfig]_vars

(***************************************************************************)
(* Specification SpecLarge: one download of the large instance or of the   *)
(* plain instance.  Of the                                                 *)
(* schedules of the Go runtime the specification keeps those in which the  *)
(* receive loop of Stream takes the next message when the goroutine of the *)
(* previous one has ended, so that messages are handled in order.          *)
(***************************************************************************)
LargeDownloads ==
    { Download(<<"a", ".", "d">>, LargePath, Token(<<"t1">>, MaxTime, LargePath)),
      Download(<<"a", ".", "d">>, PlainPath, Token(<<"t1">>, MaxTime, PlainPath)),
      Download(<<"a", ".", "d">>, LargePath, NoToken) }

NextLarge ==
    \/ \E m \in HttpMsgs : Connect(1, m, RegAddr)
    \/ Session(1)
    \/ reqs[1].handlers = {} /\ StreamRecv(1)
    \/ \E d \in LargeDownloads : HandleInstanceDownload(1, d)
    \/ Fetch(1)

SpecLarge == Init /\ [][NextLarge]_vars

(***************************************************************************)
(* Specification SpecPending: two viewers download the instance of edge a  *)
(* and the clock advances once, so that their handlers read the clock at   *)
(* the same reading or at different ones.  The receive loop of Stream      *)
(* takes the next message when the goroutine of the previous one has       *)
(* ended.                                                                  *)
(***************************************************************************)
NextPending ==
    \/ \E m \in HttpMsgs : Connect(1, m, RegAddr)
    \/ Session(1)
    \/ (\A r \in Reqs : reqs[r].handlers = {}) /\ StreamRecv(1)
    \/ \E r \in Reqs :
          HandleInstanceDownload(r, Download(<<"a", ".", "d">>, InstancePath,
                                             Token(<<"t1">>, MaxTime, InstancePath)))
    \/ \E r \in Reqs : Fetch(r)
    \/ now = ZeroTime /\ Tick

SpecPending == Init /\ [][NextPending]_vars

(***************************************************************************)
(* Specification SpecCancel: one public request, or one download, whose    *)
(* client may go away at any time after the handler has started.           *)
(***************************************************************************)
NextCancel ==
    \/ \E m \in HttpMsgs : Connect(1, m, RegAddr)
    \/ Session(1)
    \/ AgentReadLoop(1)
    \/ StreamRecv(1)
    \/ \E b \in Bodies : HandleHTTPRequest(1, <<"a", ".", "d">>, b)
    \/ HandleInstanceDownload(1, Download(<<"a", ".", "d">>, InstancePath,
                                          Token(<<"t1">>, MaxTime, InstancePath)))
    \/ Request(1)
    \/ Fetch(1)
    \/ ContextDone(1)

SpecCancel == Init /\ [][NextCancel]_vars

(***************************************************************************)
(* Specification SpecSweep: the rate limiter over more than a day.  One    *)
(* connection after the other registers from one address with a valid or   *)
(* a wrong token; the ticker of the sweep fires at any time.               *)
(***************************************************************************)
NextSweep ==
    \/ \E m \in RateMsgs : Connect(1, m, RegAddr)
    \/ Session(1)
    \/ CleanupFailedAttempts
    \/ Tick
    \/ TickDay

SpecSweep == Init /\ [][NextSweep]_vars

(***************************************************************************)
(* Specification SpecEmpty: registrations for the hospital whose           *)
(* configured token is empty, with a token and with the empty token, and   *)
(* registrations of hospital a.                                            *)
(***************************************************************************)
EmptyTokenMsgs ==
    { Msg(REGISTER, <<"a">>, <<"a", ".", "d">>, <<"t1">>),
      Msg(REGISTER, <<"e">>, <<"e", ".", "d">>, <<"t1">>),
      Msg(REGISTER, <<"e">>, <<"e", ".", "d">>, <<>>) }

NextEmpty ==
    \/ \E c \in Conns, m \in EmptyTokenMsgs : Connect(c, m, RegAddr)
    \/ \E c \in Conns : Session(c)

SpecEmpty == Init /\ [][NextEmpty]_vars

(***************************************************************************)
(* Specification SpecStop: edges register while the relay is stopped.      *)
(***************************************************************************)
NextStop ==
    \/ \E c \in Conns, m \in HttpMsgs : Connect(c, m, RegAddr)
    \/ \E c \in Conns : Session(c)
    \/ StopCloseAgents
    \/ StopReturns

SpecStop == Init /\ [][NextStop]_vars

(***************************************************************************)
(* The claims.                                                             *)
(***************************************************************************)
\* the session of connection c is Active: acknowledged and not yet ended
SessionActive(c) == conns[c].pc \in {"acked", "active"}

\* the registration handler of c takes the step that leaves position p
Leaves(c, p) == conns[c].pc = p /\ conns'[c].pc # p

\* the credentials of message m are those of a configured hospital: id in
\* the credential set, subdomain id.domain without regard to case (the gRPC
\* registration carries no subdomain), token equal to the shared secret
ValidCredentials(md, m) ==
    \E i \in DOMAIN Hospitals :
        /\ Hospitals[i].Code = m.id
        /\ md = "grpc" \/ ToLower(m.sub) = ToLower(m.id \o <<".">> \o Domain)
        /\ m.tok = Hospitals[i].Token

\* the failure record of key k says the address is inside its block window
Blocked(k) == k \in DOMAIN failedAttempts /\ now < failedAttempts[k].BlockedUntil

\* the failures recorded for key k
FailureCount(k) == IF k \in DOMAIN failedAttempts THEN failedAttempts[k].Count ELSE 0

\* the key of connection c in the rate limiter
KeyOf(c) == RemoteKey(mode, conns[c].addr)

\* the text-protocol handler of c takes its rate-limit check on a well-formed
\* REGISTER command
Checks(c) ==
    /\ mode \in {"websocket", "quic"}
    /\ conns[c].pc = "accepted"
    /\ conns'[c].pc \in {"checked", "rejected"}
    /\ Len(Fields(conns[c].msg)) = 4
    /\ conns[c].msg.cmd = REGISTER

\* C1: a registration for an id that is present in the registry is refused
\* (answered with an error and closed) and leaves the winner's registry
\* entry as it is, so that of several registrations of one id exactly one
\* succeeds.
C1_RegistrationExclusive ==
    [][\A c \in Conns :
         (Leaves(c, "authed") /\ RegistryKey(conns[c].msg) \in DOMAIN agents)
         => (agents' = agents /\ conns'[c].pc = "rejected")]_vars

\* C2: two sessions carrying the same id are never Active at the same time.
C2_OneLiveSessionPerId ==
    \A c1, c2 \in Conns :
        (c1 # c2 /\ SessionActive(c1) /\ SessionActive(c2))
        => RegistryKey(conns[c1].msg) # RegistryKey(conns[c2].msg)

\* C3: the teardown of a session leaves the registry entry of its id alone
\* when that entry refers to another session.
C3_UnregisterOnlyOwnEntry ==
    [][\A c \in Conns :
         LET k == RegistryKey(conns[c].msg)
         IN  (Leaves(c, "done") /\ k \in DOMAIN agents /\ agents[k] # c)
             => (k \in DOMAIN agents' /\ agents'[k] = agents[k])]_vars

\* C4: every frame a public client is sent was produced by the edge for that
\* client's own request, never for another request of the tunnel.
C4_NoCrosstalk ==
    \A r \in Reqs :
        \A i \in DOMAIN reqs[r].got : reqs[r].got[i].req = r

\* C5: a session is stored in the registry or Active only if its first
\* message carried the credentials of a configured hospital.
C5_ActiveOnlyWithCredentials ==
    \A c \in Conns :
        conns[c].pc \in {"registered", "acked", "active", "done"}
        => ValidCredentials(mode, conns[c].msg)

\* C6: an edge with valid credentials is refused only when its address is
\* rate limited, and from its acknowledgement until its session ends
\* Lookup(id) returns its tunnel.
C6_RegisteredTunnelIsLookedUp ==
    \A c \in Conns :
        /\ (conns[c].pc = "rejected" /\ conns[c].msg.cmd = REGISTER
              /\ ValidCredentials(mode, conns[c].msg))
           => conns[c].reply = ErrRateLimited
        /\ SessionActive(c)
           => /\ RegistryKey(conns[c].msg) \in DOMAIN agents
              /\ agents[RegistryKey(conns[c].msg)] = c

\* C7: while the block window of an address runs, every registration from
\* it is refused as rate limited at the rate-limit check, and the window is
\* not ended before its 15 minutes are over.
C7_BlockedWindowRejects ==
    [][mode = "websocket" =>
         /\ \A c \in Conns :
              (Checks(c) /\ Blocked(KeyOf(c)))
              => (conns'[c].pc = "rejected" /\ conns'[c].reply = ErrRateLimited)
         /\ \A k \in DOMAIN failedAttempts :
              (Blocked(k) /\ now' < failedAttempts[k].BlockedUntil)
              => (k \in DOMAIN failedAttempts'
                  /\ now' < failedAttempts'[k].BlockedUntil)]_vars

\* C8 as stated: with exactly four failures recorded for its address, an
\* attempt is refused as rate limited.
C8_FifthAttemptRateLimited ==
    [][\A c \in Conns :
         (Checks(c) /\ FailureCount(KeyOf(c)) = maxAttempts - 1)
         => conns'[c].reply = ErrRateLimited]_vars

\* C8 as amended: with fewer than five failures recorded the address is not
\* blocked, so the fifth attempt passes the rate-limit check and, carrying
\* the credentials of a configured hospital, is accepted and clears the
\* record; with five failures recorded and the window running, an attempt
\* is refused as rate limited even with correct credentials.
C8_BlockAfterFifthFailure ==
    [][\A c \in Conns :
         /\ (Checks(c) /\ FailureCount(KeyOf(c)) < maxAttempts)
            => conns'[c].pc = "checked"
         /\ (Leaves(c, "checked") /\ ValidCredentials(mode, conns[c].msg))
            => (conns'[c].pc = "authed" /\ KeyOf(c) \notin DOMAIN failedAttempts')
         /\ (Checks(c) /\ FailureCount(KeyOf(c)) >= maxAttempts /\ Blocked(KeyOf(c)))
            => (conns'[c].pc = "rejected" /\ conns'[c].reply = ErrRateLimited)]_vars

\* C8 witness: the fifth attempt, with correct credentials, has passed the
\* rate-limit check while four failures are recorded for its address and no
\* other connection is open.
C8_Witness ==
    \E c \in Conns :
        /\ conns[c].pc = "checked"
        /\ ValidCredentials(mode, conns[c].msg)
        /\ FailureCount(KeyOf(c)) = maxAttempts - 1
        /\ \A d \in Conns \ {c} : conns[d].pc = "idle"

\* C9: the rate-limit check refuses a registration exactly when the clock is
\* before blocked_until of its address; once the window has elapsed the
\* address is not rate limited.
C9_BlockedIffBeforeBlockedUntil ==
    [][\A c \in Conns :
         Checks(c)
         => (conns'[c].reply = ErrRateLimited <=> Blocked(KeyOf(c)))]_vars

\* C11: a response that ends normally has given the public client the head
\* and the echoed body of its request, every body frame unmodified and in
\* order, whatever bytes the body consists of.
C11_RoundTripIdentity ==
    [][(/\ reqs[1].pc \in {"body", "forward"}
        /\ reqs'[1].pc = "finished"
        /\ reqs'[1].status = StatusOK
        /\ mode = "websocket" => msgCh' # msgCh)
       => reqs'[1].got = WholeResponse(1)]_vars

\* the tunnel id of a Host: lowercased, port stripped, "." + domain removed;
\* empty for the apex domain and for a Host not under the domain
TunnelIdOf(host) ==
    LET h == StripPort(ToLower(host))
        suffix == <<".">> \o ToLower(Domain)
    IN  IF HasSuffix(h, suffix) THEN SubSeq(h, 1, Len(h) - Len(suffix)) ELSE <<>>

\* C10: a public request is answered 400 when its Host has no tunnel id, 503
\* when the tunnel id has no registry entry, and is otherwise dispatched to
\* the tunnel the registry holds for the tunnel id.
C10_RoutingByLowercasedHost ==
    [][\A r \in Reqs :
         (reqs[r].pc = "idle" /\ reqs'[r].pc # "idle")
         => LET id == TunnelIdOf(reqs'[r].host)
            IN  IF id = <<>>
                THEN reqs'[r].pc = "finished" /\ reqs'[r].status = StatusBadRequest
                ELSE IF id \notin DOMAIN agents
                THEN /\ reqs'[r].pc = "finished"
                     /\ reqs'[r].status = StatusServiceUnavailable
                ELSE reqs'[r].pc = "forward" /\ reqs'[r].agent = agents[id]]_vars

\* what has reached the sink of request r, and what is queued for it, in the
\* order of arrival
Delivered(r) == reqs[r].sunk \o reqs[r].respCh

\* the place of message f in the sequence the edge sent
Pos(ans, f) == CHOOSE i \in DOMAIN ans : ans[i] = f

\* C12: the frames of one request reach the request's sink in the order the
\* edge sent them, and the complete marker is not handled before a data
\* frame the edge sent ahead of it.
C12_FramesInSendOrder ==
    \A r \in Reqs :
        (mode = "grpc" /\ reqs[r].pc \in {"assemble", "finished"} /\ ~Panicked)
        => /\ \A i, j \in DOMAIN Delivered(r) :
                i < j => Pos(reqs[r].answer, Delivered(r)[i])
                         < Pos(reqs[r].answer, Delivered(r)[j])
           /\ reqs[r].closed => \A h \in reqs[r].handlers : h.f.kind = "complete"

\* C13: a data frame that the reader received for a request that is still
\* being served is not discarded: the goroutine that carries it ends only by
\* putting the frame on the request's frame channel (it waits while the
\* channel is full).
C13_NoDataFrameDiscarded ==
    [][\A r \in Reqs : \A h \in reqs[r].handlers :
         (/\ mode = "grpc"
          /\ reqs[r].pc = "assemble"
          /\ h.f.kind \in {"start", "chunk"}
          /\ \A g \in reqs'[r].handlers : g.f # h.f)
         => reqs'[r].respCh = Append(reqs[r].respCh, h.f)]_vars

\* C14: while one request on a tunnel waits for its response, another
\* request on the same tunnel can be dispatched to the edge: a waiting
\* request does not keep the tunnel's request lock.
C14_WaitingRequestDoesNotBlockDispatch ==
    \A r1, r2 \in Reqs :
        (/\ r1 # r2
         /\ mode = "websocket"
         /\ reqs[r1].pc \in {"waitHead", "body"}
         /\ reqs[r2].pc = "forward"
         /\ reqs[r2].agent = reqs[r1].agent)
        => ENABLED AcquireReqMutex(r2)

\* C15: whatever the reader of an Active session is doing, a failure of the
\* edge connection ends its read loop (after which the session is closed and
\* its tunnel removed from the registry): the step that ends the read loop
\* is possible in every state of an Active session.
C15_ConnectionFailureEndsSession ==
    \A c \in Conns : conns[c].pc = "active" => ENABLED ReaderExit(c)

\* Config.IdleTimeout (idle_timeout), in the units of the clock
IdleTimeout == 5

\* no heartbeat of session c has been received for longer than the idle
\* threshold
Stale(c) == now - conns[c].lastSeen > IdleTimeout

\* C16: an Active session whose last heartbeat is older than the idle
\* threshold is closed and removed from the registry: no session of the
\* WebSocket relay is still Active, with its tunnel still registered, when
\* its last heartbeat is older than twice the threshold.
C16_IdleSessionIsClosed ==
    \A c \in Conns :
        (/\ mode = "websocket"
         /\ conns[c].pc = "active"
         /\ agents[RegistryKey(conns[c].msg)] = c
         /\ Stale(c))
        => now - conns[c].lastSeen <= 2 * IdleTimeout

\* session c is Active on a connection that has not been closed
LiveActive(c) == SessionActive(c) /\ ~conns[c].closed

\* C17: when Stop has returned the registry is empty, no session is Active,
\* and every connection that was registered or registering when Stop ran
\* has been closed.
C17_StoppedRelayHasNoSessions ==
    (mode = "websocket" /\ stop = "returned")
    => /\ agents = EmptyMap
       /\ \A c \in Conns : ~LiveActive(c)
       /\ \A c \in Conns : conns[c].pc \notin {"idle", "rejected"} => conns[c].closed

\* http.StatusBadGateway
StatusBadGateway == 502

\* C18: a public request whose dispatch fails before the response head has
\* been written to the client (the write to the edge fails, the wait for the
\* head times out, the head is malformed) is answered with 502 Bad Gateway.
C18_DispatchFailureIsBadGateway ==
    [][\A r \in Reqs :
         (reqs[r].pc \in {"locked", "waitHead"} /\ reqs'[r].pc = "finished")
         => reqs'[r].status = StatusBadGateway]_vars

\* C19: no PendingRequest entry outlives its request: when the handler of a
\* dispatched request has ended, by completion, error, cancellation or a
\* failed send to the edge, the request's entry is no longer in the pending
\* map of the edge (as long as the edge's session, which owns the map, is
\* there).
C19_NoPendingEntryOutlivesRequest ==
    \A r \in Reqs :
        (/\ reqs[r].pc = "finished"
         /\ reqs[r].agent # 0
         /\ ConnOpen(reqs[r].agent)
         /\ ~Panicked)
        => ~reqs[r].pending

\* C20: a request that is in flight on a session whose read loop has ended
\* (I/O error, peer close) fails because of the teardown: it is never left
\* with the disconnect of its client as the only step that ends it.
C20_TeardownFailsRequestsInFlight ==
    \A r \in Reqs :
        (/\ mode = "grpc"
         /\ reqs[r].pc = "assemble"
         /\ conns[reqs[r].agent].pc = "done"
         /\ ~Panicked)
        => ENABLED (\/ HandlerLookup(r)
                    \/ HandlerDispatch(r)
                    \/ AssembleRecv(r)
                    \/ AssembleComplete(r)
                    \/ AssembleError(r))

\* Config.MaxConcurrentConn (max_concurrent_conn) as the operator set it
MaxConcurrentConn == 1

\* C21: the number of tunnels registered at the same time never exceeds
\* max_concurrent_conn; a registration beyond the bound is refused.
C21_RegisteredTunnelsBounded ==
    Cardinality(DOMAIN agents) <= MaxConcurrentConn

\* the positions of a connection that has a session
SessionStates == {"registered", "acked", "active", "done"}

\* C22: within one session last_seen never moves backwards.
C22_LastSeenMonotone ==
    [][\A c \in Conns :
         (conns[c].pc \in SessionStates /\ conns'[c].pc \in SessionStates)
         => conns'[c].lastSeen >= conns[c].lastSeen]_vars

\* a heartbeat has advanced last_seen of an Active session beyond the time
\* of its registration
C22_Witness ==
    \E c \in Conns :
        /\ conns[c].pc = "active"
        /\ conns[c].lastSeen > conns[c].connected

\* host is the domain, or something followed by a dot and the domain
UnderDomain(host) ==
    \/ host = Domain
    \/ \E k \in 0..Len(host) : host = SubSeq(host, 1, k) \o <<".">> \o Domain

\* C23: the host policy allows issuance for a host if and only if the host
\* is the domain or ends with "." and the domain; every other host gets the
\* unauthorized-host error.
C23_HostPolicyIffUnderDomain ==
    hello.pc = "decided"
    => /\ (hello.err = "") <=> UnderDomain(hello.host)
       /\ hello.err # "" => hello.err = ErrUnauthorizedHost

\* a certificate is allowed for a subdomain
C23_Witness ==
    /\ hello.pc = "decided"
    /\ hello.err = ""
    /\ hello.host # Domain

\* the hospitals an operator configured: those of hospitals.json when it is
\* read, else those of the configuration file
Configured(cf) == IF cf.file.ok THEN cf.file.hospitals ELSE cf.static

\* C24: for every configured hospital whose token variable is set in the
\* environment, the token that authenticates its registrations is the value
\* of the variable, not the token written in the file.
C24_EnvTokenOverridesFileToken ==
    config.pc = "loaded"
    => \A i \in DOMAIN Configured(config) :
          LET h == Configured(config)[i]
          IN  Getenv(config.env, EnvKey(h.Code)) # <<>>
              => HospitalTokenIn(config.hospitals, h.Code, h.Subdomain)
                 = << Getenv(config.env, EnvKey(h.Code)), TRUE >>

\* the secret of the hospital whose edge request r goes to
SecretOf(r) ==
    (CHOOSE h \in { Hospitals[i] : i \in DOMAIN Hospitals } : h.Code = reqs[r].code).Token

\* C25: a fetch command is prepared or sent for a download only when its
\* token is present, was sealed under the secret of the request's hospital,
\* is not expired and is bound to exactly the path of the request.
C25_CommandOnlyWithValidToken ==
    \A r \in Reqs :
        (mode = "grpc" /\ (reqs[r].pc \in {"send", "assemble"} \/ reqs[r].answer # <<>>))
        => /\ reqs[r].token.enc = "sealed"
           /\ reqs[r].token.key = SecretOf(r)
           /\ reqs[r].token.exp >= now
           /\ reqs[r].token.path = reqs[r].path

\* a download with a valid token has had its command sent to the edge
C25_Witness ==
    \E r \in Reqs :
        /\ mode = "grpc"
        /\ reqs[r].pc = "assemble"
        /\ reqs[r].token.enc = "sealed"

\* the response frames of request r that the relay holds: in goroutines of
\* handleDataResponse, in ResponseChan and in the chunks map of the
\* assembly goroutine
Held(r) ==
    Cardinality(reqs[r].handlers) + Len(reqs[r].respCh) + Cardinality(reqs[r].chunks)

\* C26: the relay never holds more response frames of one request than the
\* request's frame channel has places, however large the response is.
C26_BufferedFramesBounded ==
    \A r \in Reqs : Held(r) <= ResponseChanCap

\* the connection handler of c is at the write of the acknowledgement: the
\* agent is in the registry and the acknowledgement is not written yet
AckWriter(c) == conns[c].pc = "registered"

\* the public requests routed to c that are at the write of their request
\* (WebSocket, holding ReqMutex) or of their fetch command (gRPC)
RequestWriters(c) ==
    { r \in Reqs : /\ reqs[r].agent = c
                   /\ ConnOpen(c)
                   /\ \/ mode = "websocket" /\ reqs[r].pc = "locked"
                      \/ mode = "grpc" /\ reqs[r].pc = "send" }

\* C27: at most one task at a time is at a write to the stream of an edge:
\* the acknowledgement of the registration and the emissions of the public
\* requests of the session exclude each other.
C27_OneWriterPerStream ==
    \A c \in Conns :
        (IF AckWriter(c) THEN 1 ELSE 0) + Cardinality(RequestWriters(c)) <= 1

\* request r is inserted into the pending map of its edge in this step
Inserted(r) == ~reqs[r].pending /\ reqs'[r].pending

\* C28: a PendingRequest is never inserted under the request id of an entry
\* that is pending on the same tunnel: no insert replaces a live entry.
C28_InsertNeverOverwrites ==
    [][\A r \in Reqs :
          Inserted(r) => SameEntry(r, reqs'[r].agent, reqs'[r].requestID) = {}]_vars

\* the task of request r waits for response frames
Waiting(r) ==
    \/ mode = "websocket" /\ reqs[r].pc \in {"waitHead", "body"}
    \/ mode = "grpc" /\ reqs[r].pc = "assemble"

\* C29: a request task that waits for response frames and whose context is
\* cancelled can return at once, on the cancellation itself: it need not
\* wait for the next frame or for request_timeout.
C29_CancelledWaiterReturns ==
    \A r \in Reqs :
        (Waiting(r) /\ reqs[r].ctxDone /\ ~Panicked) => ENABLED AssembleCancel(r)

\* connection c is rejected in this step for an unknown id, a subdomain
\* mismatch or a bad token
RejectedForCredentials(c) ==
    /\ conns[c].pc # "rejected"
    /\ conns'[c].pc = "rejected"
    /\ conns'[c].reply \in {ErrSubdomain, ErrToken, ErrNotConfigured,
                            ErrUnknownHospital, ErrGrpcToken}

\* blocked_until of address k, the zero time when k has no record
BlockedUntilOf(k) ==
    IF k \in DOMAIN failedAttempts THEN failedAttempts[k].BlockedUntil ELSE ZeroTime

\* C30: a registration rejected for unknown id, subdomain mismatch or bad
\* token adds exactly one to the failure count of its address and sets
\* last_attempt_at to now; blocked_until becomes now + 15 min when the new
\* count is 5 or more, and is left as it was when the new count is below 5.
C30_RejectionRecordsOneFailure ==
    [][\A c \in Conns :
          RejectedForCredentials(c)
          => LET k == KeyOf(c)
             IN  /\ k \in DOMAIN failedAttempts'
                 /\ failedAttempts'[k].Count = FailureCount(k) + 1
                 /\ failedAttempts'[k].LastAttempt = now
                 /\ failedAttempts'[k].BlockedUntil =
                       IF failedAttempts'[k].Count >= maxAttempts
                       THEN now + blockDuration
                       ELSE BlockedUntilOf(k)]_vars

\* the authentication of connection c succeeds in this step
Authenticates(c) == conns[c].pc # "authed" /\ conns'[c].pc = "authed"

\* the failures recorded for key k after the step
FailureCountAfter(k) ==
    IF k \in DOMAIN failedAttempts' THEN failedAttempts'[k].Count ELSE 0

\* C31: a successful authentication removes the failure record of its
\* address, a step adds at most one failure to a record and only by
\* rejecting a registration of that address, and an address is inside a
\* block window only with five or more failures in its record: the failures
\* before a success never count, five new ones are needed for a block.
C31_SuccessClearsFailures ==
    [][/\ \A c \in Conns :
            Authenticates(c) => KeyOf(c) \notin DOMAIN failedAttempts'
       /\ \A k \in DOMAIN failedAttempts' :
            /\ FailureCountAfter(k) <= FailureCount(k) + 1
            /\ FailureCountAfter(k) = FailureCount(k) + 1
               => \E c \in Conns : RejectedForCredentials(c) /\ KeyOf(c) = k
            /\ now' < failedAttempts'[k].BlockedUntil
               => FailureCountAfter(k) >= maxAttempts]_vars

\* C31 witness: a connection is authenticated and no failure is recorded for
\* its address although a registration from that address was rejected for
\* its token; the rejection came first, or its record would be there.
C31_Witness ==
    \E c, d \in Conns :
        /\ conns[c].pc = "authed"
        /\ conns[d].pc = "rejected" /\ conns[d].reply = ErrToken
        /\ KeyOf(c) = KeyOf(d)
        /\ KeyOf(c) \notin DOMAIN failedAttempts

\* the host part of a remote address
HostPart(addr) == <<addr[1]>>

\* C32: failures are counted and blocks kept per host part of the remote
\* address: every record of the rate limiter is stored under a host part,
\* so that all source ports of an IP share one record.
C32_RecordsKeyedByHostPart ==
    \A k \in DOMAIN failedAttempts : k \in { HostPart(a) : a \in Addrs }

\* the payloads of the chunks of an answer, in the order of their indexes
\* (an edge sends its chunks in that order)
ChunkPayloads(ans) ==
    LET cs == SelectSeq(ans, LAMBDA f : f.kind = "chunk")
    IN  [i \in DOMAIN cs |-> cs[i].data]

\* the transfer of request r has ended on the complete marker after every
\* chunk of the answer had arrived at the assembly goroutine
TransferComplete(r) ==
    /\ reqs[r].pc = "finished"
    /\ reqs[r].closed
    /\ reqs[r].respCh = <<>>
    /\ ~reqs[r].ctxDone
    /\ \A i \in DOMAIN reqs[r].answer :
          reqs[r].answer[i].kind = "chunk"
          => \E j \in DOMAIN reqs[r].sunk : reqs[r].sunk[j] = reqs[r].answer[i]

\* C33: when all chunks of a response have arrived and the transfer has
\* ended, the public client has received the payloads of the chunks in the
\* order of their indexes, whether the start message declared the transfer
\* chunked or not.
C33_ChunksConcatenatedInOrder ==
    \A r \in Reqs :
        TransferComplete(r) => reqs[r].got = ChunkPayloads(reqs[r].answer)

\* the sweep removes the record of key k in this step
Swept(k) ==
    /\ k \in DOMAIN failedAttempts
    /\ k \notin DOMAIN failedAttempts'
    /\ conns' = conns

\* C34: the sweep of the rate limiter never removes the record of an address
\* that is inside its block window.
C34_SweepKeepsBlockedRecords ==
    [][\A k \in DOMAIN failedAttempts : Swept(k) => ~Blocked(k)]_vars

\* the Host header that addresses the tunnel of id: id + "." + domain
HostOf(id) == id \o <<".">> \o Domain

\* C35: every tunnel of the registry is stored under the TunnelId that
\* extractHospitalCode derives from the Host of its id, so that public
\* requests for that Host find it.
C35_RegistryKeyIsDerivedTunnelId ==
    \A k \in DOMAIN agents :
        mode \in {"websocket", "quic"} => ExtractHospitalCode(mode, HostOf(k)) = k

\* C36: what a public client is sent after the response head are only bytes
\* of the edge: nothing the relay generates (an error text, a second status)
\* follows the head when the request fails mid-body.
C36_OnlyEdgeBytesAfterHead ==
    \A r \in Reqs :
        mode = "websocket"
        => \A i, j \in DOMAIN reqs[r].got :
              (i < j /\ reqs[r].got[i].kind = "head") => reqs[r].got[j].kind # "relay"

\* the session of connection c has its MsgCh, its reader and its written
\* acknowledgement
Initialised(c) == conns[c].pc \notin {"registered", "acked"}

\* C37: a public request is dispatched only to a tunnel that is fully
\* initialised: the session a request has looked up has its message
\* channel and its reader, and its acknowledgement has been written.
C37_LookedUpTunnelIsInitialised ==
    \A r \in Reqs :
        (/\ mode = "websocket"
         /\ reqs[r].pc \in {"forward", "locked", "waitHead", "body"}
         /\ reqs[r].code \in DOMAIN agents
         /\ agents[reqs[r].code] = reqs[r].agent)
        => Initialised(reqs[r].agent)

\* C38: no goroutine of handleDataResponse sends on a ResponseChan that has
\* been closed or closes it a second time: no dispatch panics.
C38_NoDispatchPanics ==
    \A r \in Reqs : ~reqs[r].panic

\* the configured token of the hospital with the id of message m is empty
EmptyTokenHospital(m) ==
    \E i \in DOMAIN Hospitals :
        /\ ToUpper(Hospitals[i].Code) = ToUpper(m.id)
        /\ Hospitals[i].Token = <<>>

\* C39: no registration for a hospital whose configured token is empty
\* succeeds, whatever token the edge presents.
C39_EmptyTokenNeverRegisters ==
    \A c \in Conns :
        conns[c].pc \in {"authed"} \cup SessionStates
        => ~EmptyTokenHospital(conns[c].msg)

\* no public request is reading the frames of the session of connection c
NoRequestWaiting(c) ==
    \A r \in Reqs :
        ~(reqs[r].agent = c /\ reqs[r].pc \in {"locked", "waitHead", "body"})

\* C40: frames of the edge that no request is waiting for do not stop the
\* reader of a session: whatever the edge has sent, the reader of an Active
\* session that is not closed can process the next heartbeat.
C40_UnsolicitedFramesDoNotBlockReader ==
    \A c \in Conns :
        (/\ mode = "websocket"
         /\ conns[c].pc = "active"
         /\ ~conns[c].closed
         /\ NoRequestWaiting(c))
        => ENABLED Heartbeat(c)

====
